---- MODULE Spec2Model ----
(***************************************************************************)
(* Model of the SQLite -> PostgreSQL migration (sqlite_to_postgres/        *)
(* load_data.py) and of its consistency checker                            *)
(* (sqlite_to_postgres/tests/check_consistency.py), against the target     *)
(* schema declared in movies_admin/movies/models.py.                       *)
(***************************************************************************)
EXTENDS Integers, Sequences, FiniteSets

(***************************************************************************)
(* Bounds of the model.                                                    *)
(***************************************************************************)
\* load_from_sqlite passes batch_size=1000; the model runs load_data with
\* every batch size 1..MaxBatchSize against tables of at most three rows.
MaxBatchSize == 3
\* number of consecutive migration runs against the same target
MaxRuns == 2
\* UTC offset (hours) of the PostgreSQL session that reads timestamptz back
PgOffset == 3
\* wall-clock reading of datetime.now() during the first run
NowBase == 7
\* the content check is run on the instants 0..MaxInstant
MaxInstant == 3
\* and on the UTC offsets -MaxOffset..MaxOffset of the target's timestamps
MaxOffset == 2

(***************************************************************************)
(* Column values.  Python values of different types are kept apart by the *)
(* tag t; v is the payload and off the UTC offset of an aware datetime.    *)
(***************************************************************************)
Null == [t |-> "none", v |-> 0, off |-> 0]
\* a str; v names its content (ids are compared by v in ORDER BY id)
Text(n) == [t |-> "str", v |-> n, off |-> 0]
\* a float
Float(n) == [t |-> "float", v |-> n, off |-> 0]
\* an int
PyInt(n) == [t |-> "int", v |-> n, off |-> 0]
\* the str 'YYYY-MM-DD HH:MM:SS.ffffff+00' of the naive time n
TextTs(n) == [t |-> "str+00", v |-> n, off |-> 0]
\* a naive datetime
Naive(n) == [t |-> "naive", v |-> n, off |-> 0]
\* a timezone-aware datetime showing wall time w at UTC offset o
Aware(w, o) == [t |-> "aware", v |-> w, off |-> o]

(***************************************************************************)
(* Schema.                                                                 *)
(***************************************************************************)
Tables == {"person", "genre", "film_work", "person_film_work", "genre_film_work"}

\* as Plan, with the person_film_work loop placed before the film_work loop
BadPlan == <<"person", "genre", "person_film_work", "film_work", "genre_film_work">>
\* order in which load_from_sqlite processes the tables
Plan == <<"person", "genre", "film_work", "person_film_work", "genre_film_work">>

\* columns of each table, in the order of the INSERT statements / dataclasses
Columns(table) ==
    CASE table = "person" -> <<"id", "full_name", "created", "modified">>
      [] table = "genre" -> <<"id", "name", "description", "created", "modified">>
      [] table = "film_work" -> <<"id", "title", "description", "creation_date",
                                  "file_path", "rating", "type", "created", "modified">>
      [] table = "person_film_work" -> <<"id", "role", "created", "film_work_id", "person_id">>
      [] table = "genre_film_work" -> <<"id", "created", "film_work_id", "genre_id">>

\* foreign keys of the link tables: <<column, referenced table>>
ForeignKeys(table) ==
    CASE table = "person_film_work" -> {<<"film_work_id", "film_work">>, <<"person_id", "person">>}
      [] table = "genre_film_work" -> {<<"film_work_id", "film_work">>, <<"genre_id", "genre">>}
      [] OTHER -> {}

\* declared UniqueConstraint of each table besides the primary key (empty: none)
UniqueKey(table) ==
    CASE table = "genre" -> {"name"}
      [] table = "person_film_work" -> {"film_work_id", "person_id", "role"}
      [] table = "genre_film_work" -> {"genre_id", "film_work_id"}
      [] OTHER -> {}

(***************************************************************************)
(* Rows of the source (SQLite) store.                                      *)
(***************************************************************************)
SPerson(i, name, c) ==
    [id |-> Text(i), full_name |-> Text(name), created |-> c, modified |-> c]
SGenre(i, name, c) ==
    [id |-> Text(i), name |-> Text(name), description |-> Null, created |-> c, modified |-> c]
SFilm(i, rating, c) ==
    [id |-> Text(i), title |-> Text(i), description |-> Null, creation_date |-> Null,
     file_path |-> Null, rating |-> rating, type |-> Text(1), created |-> c, modified |-> c]
SPfw(i, f, p, role, c) ==
    [id |-> Text(i), role |-> Text(role), created |-> c, film_work_id |-> Text(f),
     person_id |-> Text(p)]
SGfw(i, f, g, c) ==
    [id |-> Text(i), created |-> c, film_work_id |-> Text(f), genre_id |-> Text(g)]

(***************************************************************************)
(* PostgresSaver: the parameters bound to one INSERT and what PostgreSQL   *)
(* does with the statement.                                                *)
(***************************************************************************)
\* datetime.now() during run number r
Now(r) == Naive(NowBase + r)

\* Python truthiness, for `row['created'] or datetime.now()`
Falsy(v) == v.t = "none" \/ (v.t \in {"str", "float", "int"} /\ v.v = 0)

\* as Params, with the rating of a film_work row bound as the source holds it
ParamsKeepNull(table, row, now) ==
    CASE table \in {"person", "genre", "film_work"} ->
           [row EXCEPT !.created = IF Falsy(@) THEN now ELSE @,
                       !.modified = IF Falsy(@) THEN now ELSE @]
      [] OTHER ->
           [row EXCEPT !.created = IF @ = Null THEN now ELSE @]
\* the parameter tuple save_<table> binds for one source row
Params(table, row, now) ==
    CASE table \in {"person", "genre"} ->
           [row EXCEPT !.created = IF Falsy(@) THEN now ELSE @,
                       !.modified = IF Falsy(@) THEN now ELSE @]
      [] table = "film_work" ->
           [row EXCEPT !.rating = IF @ = Null THEN Float(0) ELSE @,
                       !.created = IF Falsy(@) THEN now ELSE @,
                       !.modified = IF Falsy(@) THEN now ELSE @]
      [] OTHER ->
           [row EXCEPT !.created = IF @ = Null THEN now ELSE @]

\* a bound parameter as the target stores it and psycopg2 reads it back:
\* timestamps become timezone-aware datetimes in the session's zone
PgStore(v) ==
    CASE v.t = "str+00" -> Aware(v.v + PgOffset, PgOffset)
      [] v.t = "naive" -> Aware(v.v, PgOffset)
      [] OTHER -> v

PgRow(table, params) ==
    [c \in DOMAIN params |-> IF c \in {"created", "modified"} THEN PgStore(params[c])
                             ELSE params[c]]

\* the key the schema declares for a table: the primary id of a base table,
\* the composite unique constraint of a link table
DeclaredKey(table) ==
    IF table \in {"person_film_work", "genre_film_work"} THEN UniqueKey(table) ELSE {"id"}

\* the conflict target of the INSERT: ON CONFLICT (id) DO NOTHING, in all five
ConflictTarget(table) == {"id"}

\* the unique indexes of a target table: the primary key and the declared constraint
UniqueIndexes(table) ==
    {{"id"}} \cup (IF UniqueKey(table) = {} THEN {} ELSE {UniqueKey(table)})

Collides(key, r, rows) == \E t \in rows : \A c \in key : t[c] = r[c]

\* the row collides on the statement's conflict target: DO NOTHING
Conflict(table, r, db) == Collides(ConflictTarget(table), r, db[table])

\* the row breaks a unique index that is not the conflict target
UniqueViolation(table, r, db) ==
    \E key \in UniqueIndexes(table) \ {ConflictTarget(table)} : Collides(key, r, db[table])

\* the row references a parent id absent from the target
FkViolation(table, r, db) ==
    \E fk \in ForeignKeys(table) : ~ \E t \in db[fk[2]] : t.id = r[fk[1]]

\* as Except, with the exception raised again instead of logged
ExceptReraise(tx) == [tx EXCEPT !.raised = TRUE]
\* except Exception as e: logger.warning(...): the error of the row is logged
\* and the for loop goes on
Except(tx) == [tx EXCEPT !.out = Append(@, "error")]

\* as Execute, with ON CONFLICT (id) DO UPDATE in place of DO NOTHING
ExecuteUpsert(table, row, tx, now) ==
    LET r == PgRow(table, Params(table, row, now)) IN
    IF tx.failed THEN
        Except(tx)
    ELSE IF FkViolation(table, r, tx.db)
            \/ UniqueViolation(table, r, [tx.db EXCEPT ![table] = {t \in @ : t.id # r.id}])
    THEN
        Except([tx EXCEPT !.failed = TRUE])
    ELSE
        [tx EXCEPT !.db[table] = {t \in @ : t.id # r.id} \cup {r},
                   !.out = Append(@, IF Conflict(table, r, tx.db) THEN "updated"
                                     ELSE "inserted")]

\* as Execute, against a target that declares no foreign key
ExecuteNoFk(table, row, tx, now) ==
    LET r == PgRow(table, Params(table, row, now)) IN
    IF tx.failed THEN
        Except(tx)
    ELSE IF Conflict(table, r, tx.db) THEN
        [tx EXCEPT !.out = Append(@, "skipped")]
    ELSE IF UniqueViolation(table, r, tx.db) THEN
        Except([tx EXCEPT !.failed = TRUE])
    ELSE
        [tx EXCEPT !.db[table] = @ \cup {r}, !.out = Append(@, "inserted")]

\* One cursor.execute inside the open transaction
\* tx = [db, failed, out, raised].  A statement that raises leaves the
\* transaction aborted: every later statement of the transaction raises as
\* well (caught and logged per row).  raised: an exception left the try.
Execute(table, row, tx, now) ==
    LET r == PgRow(table, Params(table, row, now)) IN
    IF tx.failed THEN
        Except(tx)
    ELSE IF Conflict(table, r, tx.db) THEN
        [tx EXCEPT !.out = Append(@, "skipped")]
    ELSE IF UniqueViolation(table, r, tx.db) \/ FkViolation(table, r, tx.db) THEN
        Except([tx EXCEPT !.failed = TRUE])
    ELSE
        [tx EXCEPT !.db[table] = @ \cup {r}, !.out = Append(@, "inserted")]

\* the for loop of save_<table>
RECURSIVE ExecuteAll(_, _, _, _)
ExecuteAll(table, rows, tx, now) ==
    IF rows = << >> \/ tx.raised THEN tx
    ELSE ExecuteAll(table, Tail(rows), Execute(table, Head(rows), tx, now), now)

\* as Commit, with the call to commit() left out
NoCommit(db, tx) == db
\* self.conn.commit(): COMMIT of an aborted transaction rolls it back
Commit(db, tx) == IF tx.failed THEN db ELSE tx.db

\* save_<table>(data): result [db: the target after the call, out: per-row outcome,
\* failed: whether the transaction was rolled back, raised: whether an
\* exception left save_<table>, which then never reached commit()]
SaveBatch(table, data, db, now) ==
    LET tx == ExecuteAll(table, data,
                         [db |-> db, failed |-> FALSE, out |-> << >>, raised |-> FALSE], now)
    IN [db |-> IF tx.raised THEN db ELSE Commit(db, tx), out |-> tx.out,
        failed |-> tx.failed, raised |-> tx.raised]

(***************************************************************************)
(* SQLiteLoader.load_data: the queries of the generator.                   *)
(***************************************************************************)
\* SELECT COUNT(*) FROM table
CountRows(rows) == Len(rows)

\* as LoopCondition, with <= in place of <
LoopConditionInclusive(offset, total_rows) == offset <= total_rows
\* while offset < total_rows
LoopCondition(offset, total_rows) == offset < total_rows

\* as SelectLimitOffset, with the LIMIT left out: the rest of the table at once
SelectOffset(rows, limit, offset) == SubSeq(rows, offset + 1, Len(rows))
\* as SelectLimitOffset, with a LIMIT one row short
SelectLimitOffsetShort(rows, limit, offset) ==
    SubSeq(rows, offset + 1, IF offset + limit - 1 < Len(rows) THEN offset + limit - 1
                             ELSE Len(rows))
\* SELECT * FROM table LIMIT batch_size OFFSET offset
SelectLimitOffset(rows, limit, offset) ==
    SubSeq(rows, offset + 1, IF offset + limit < Len(rows) THEN offset + limit
                             ELSE Len(rows))


(***************************************************************************)
(* The stores the model starts from.                                       *)
(***************************************************************************)
P1 == SPerson(1, 1, TextTs(1))
P2 == SPerson(2, 2, Null)
P3 == SPerson(3, 1, TextTs(2))
G1 == SGenre(1, 1, TextTs(1))
G2 == SGenre(2, 1, TextTs(1))
G3 == SGenre(3, 2, Null)
F1 == SFilm(1, Null, TextTs(1))
F2 == SFilm(2, Float(5), TextTs(2))
X1 == SPfw(1, 1, 1, 1, TextTs(1))
X2 == SPfw(2, 3, 1, 1, TextTs(1))
X3 == SPfw(3, 1, 1, 2, Null)
X4 == SPfw(4, 2, 2, 1, TextTs(2))
Y1 == SGfw(1, 1, 1, TextTs(1))
Y2 == SGfw(2, 2, 1, Null)

\* source tables, in the store's native row order (ids are unique per table)
Sources ==
    {[person |-> p, genre |-> g, film_work |-> f, person_film_work |-> x,
      genre_film_work |-> y] :
        p \in {<<P1>>, <<P2, P1, P3>>},
        g \in {<< >>, <<G1, G3>>, <<G1, G2>>},
        f \in {<<F1>>, <<F2, F1>>},
        x \in {<< >>, <<X1, X4, X3>>, <<X1, X2, X3>>},
        y \in {<< >>, <<Y1, Y2>>}}

\* rows a target may hold before the first run
TP1 == PgRow("person", SPerson(1, 9, TextTs(3)))
TG1 == PgRow("genre", G1)
TF1 == PgRow("film_work", SFilm(1, Float(4), TextTs(1)))
TX9 == PgRow("person_film_work", SPfw(9, 1, 1, 1, TextTs(1)))
TY9 == PgRow("genre_film_work", SGfw(9, 1, 1, TextTs(1)))

\* a target satisfies its own constraints: foreign keys and unique indexes
Consistent(db) ==
    \A table \in Tables : \A r \in db[table] :
        /\ ~ FkViolation(table, r, db)
        /\ \A key \in UniqueIndexes(table) : ~ Collides(key, r, db[table] \ {r})

Targets ==
    {db \in [person : SUBSET {TP1}, genre : SUBSET {TG1}, film_work : SUBSET {TF1},
             person_film_work : SUBSET {TX9}, genre_film_work : SUBSET {TY9}] :
        Consistent(db)}

EmptyTarget == [table \in Tables |-> {}]

(***************************************************************************)
(* State.                                                                  *)
(***************************************************************************)
VARIABLES
    src,          \* the SQLite store: table -> sequence of rows (read-only)
    target,       \* the PostgreSQL store: table -> set of committed rows
    batch_size,   \* load_data's batch_size
    run,          \* number of the current migration run
    pc,           \* position of load_from_sqlite: "count", "loop", "save", "done"
                  \* ("crashed": an exception left it; "aborted": the process
                  \* was stopped from outside)
    ti,           \* index in Plan of the table being migrated
    total_rows,   \* load_data's total_rows
    offset,       \* load_data's offset
    batch,        \* the batch yielded and not yet saved
    yielded,      \* every batch load_data yielded for the current table, in order
    progress,     \* table -> source rows whose batch was committed in this run
    run_start,    \* the target when the current run began
    first_target, \* the target before the first run
    saved,        \* what the last save_<table> call did
    inserted,     \* rows committed by this run
    failures,     \* row-level errors logged by this run
    skipped,      \* rows this run skipped on the conflict target
    chk,          \* the checker: 0 idle, i visiting its i-th table, 6 completed
                  \* (-1: an exception left test_data_integrity)
    report,       \* the checker's log: one entry per table visited
    commits,      \* commit() calls of this run
    fault,        \* the read error or the abort the environment may inject,
                  \* and what the run looked like when it did
    clock,        \* table -> for each batch, the run that saved it first
    cmp           \* the last comparison of one column of one pair of rows

vars == <<src, target, batch_size, run, pc, ti, total_rows, offset, batch, yielded,
          progress, run_start, first_target, saved, inserted, failures, skipped, chk,
          report, commits, fault, clock, cmp>>

\* no pair of values compared yet
NoCompare == [column |-> "", sqlite_value |-> Null, pg_value |-> Null,
              mismatch |-> FALSE]

\* the environment injects nothing
NoFault == [state |-> "off", run |-> 0, table |-> "", progress |-> 0,
            target |-> EmptyTarget]
\* the environment may inject one read error or one abort
Armed == [NoFault EXCEPT !.state = "armed"]

NoSave == [table |-> "", data |-> << >>, out |-> << >>, failed |-> FALSE,
           before |-> EmptyTarget]

Init ==
    /\ src \in Sources
    /\ target \in Targets
    /\ batch_size \in 1..MaxBatchSize
    /\ run = 1
    /\ pc = "count"
    /\ ti = 1
    /\ total_rows = 0
    /\ offset = 0
    /\ batch = << >>
    /\ yielded = << >>
    /\ progress = [table \in Tables |-> 0]
    /\ run_start = target
    /\ first_target = target
    /\ saved = NoSave
    /\ inserted = 0
    /\ failures = 0
    /\ skipped = 0
    /\ chk = 0
    /\ report = << >>
    /\ commits = 0
    /\ fault = NoFault
    /\ clock = [table \in Tables |-> << >>]
    /\ cmp = NoCompare

table_now == Plan[ti]

Count(seq, x) == Cardinality({i \in 1..Len(seq) : seq[i] = x})

(***************************************************************************)
(* load_from_sqlite, one generator step or one save_<table> call at a time *)
(***************************************************************************)
\* load_data up to the while loop: SELECT COUNT(*), offset = 0
CountTable ==
    /\ pc = "count"
    /\ total_rows' = CountRows(src[table_now])
    /\ offset' = 0
    /\ yielded' = << >>
    /\ pc' = "loop"
    /\ UNCHANGED <<src, target, batch_size, run, ti, batch, progress, run_start,
                   first_target, saved, inserted, failures, skipped, chk, report,
                   commits,
                   fault,
                   clock, cmp>>

\* while offset < total_rows: SELECT ... LIMIT batch_size OFFSET offset; yield
YieldBatch ==
    /\ pc = "loop"
    /\ LoopCondition(offset, total_rows)
    /\ batch' = SelectLimitOffset(src[table_now], batch_size, offset)
    /\ yielded' = Append(yielded, batch')
    /\ pc' = "save"
    /\ UNCHANGED <<src, target, batch_size, run, ti, total_rows, offset, progress,
                   run_start, first_target, saved, inserted, failures, skipped, chk,
                   report,
                   commits,
                   fault,
                   clock, cmp>>

\* the body of the for loop: saver.save_<table>(batch), then the generator
\* resumes with offset += batch_size
Save ==
    /\ pc = "save"
    /\ LET res == SaveBatch(table_now, batch, target, Now(run)) IN
        /\ target' = res.db
        /\ saved' = [table |-> table_now, data |-> batch, out |-> res.out,
                     failed |-> res.failed, before |-> target]
        /\ inserted' = inserted + Cardinality(res.db[table_now] \ target[table_now])
        /\ failures' = failures + Count(res.out, "error")
        /\ skipped' = skipped + Count(res.out, "skipped")
        /\ IF res.raised
           THEN \* the exception leaves load_from_sqlite
                /\ pc' = "crashed"
                /\ UNCHANGED <<progress, offset, batch, commits, clock>>
           ELSE /\ progress' = [progress EXCEPT ![table_now] = @ + Len(batch)]
                /\ clock' = [clock EXCEPT ![table_now] =
                                 IF Len(@) < Len(yielded) THEN Append(@, run) ELSE @]
                /\ commits' = commits + 1
                /\ offset' = offset + batch_size
                /\ batch' = << >>
                /\ pc' = "loop"
    /\ UNCHANGED <<src, batch_size, run, ti, total_rows, yielded, run_start,
                   first_target, chk, report, fault, cmp>>

\* the while loop ends: the for loop over this table ends, the next begins
NextTable ==
    /\ pc = "loop"
    /\ ~ LoopCondition(offset, total_rows)
    /\ IF ti < Len(Plan) THEN ti' = ti + 1 /\ pc' = "count"
       ELSE ti' = ti /\ pc' = "done"
    /\ yielded' = << >>
    /\ UNCHANGED <<src, target, batch_size, run, total_rows, offset, batch,
                   progress, run_start, first_target, saved, inserted, failures,
                   skipped, chk, report,
                   commits,
                   fault,
                   clock, cmp>>

\* the script is started again on the same stores
RunAgain ==
    /\ pc \in {"done", "aborted"}
    /\ chk = 0
    /\ run < MaxRuns
    /\ run' = run + 1
    /\ pc' = "count"
    /\ ti' = 1
    /\ total_rows' = 0
    /\ offset' = 0
    /\ yielded' = << >>
    /\ progress' = [table \in Tables |-> 0]
    /\ run_start' = target
    /\ saved' = NoSave
    /\ inserted' = 0
    /\ failures' = 0
    /\ skipped' = 0
    /\ commits' = 0
    /\ UNCHANGED <<src, target, batch_size, batch, first_target, chk, report,
                   fault, clock, cmp>>

(***************************************************************************)
(* Failures of the environment: a query of the source that raises, and a   *)
(* process that is stopped between two batches.                            *)
(***************************************************************************)
\* as OnReadError, with the exception leaving load_data and load_from_sqlite
OnReadErrorRaise(i) == [pc |-> "crashed", ti |-> i]
\* except Exception as e: logger.error(...): the generator returns, the for
\* loop over it ends and load_from_sqlite goes on to its next for loop
OnReadError(i) ==
    IF i < Len(Plan) THEN [pc |-> "count", ti |-> i + 1] ELSE [pc |-> "done", ti |-> i]

\* cursor.execute of SELECT COUNT(*) or of SELECT ... LIMIT ... OFFSET raises
ReadError ==
    /\ fault.state = "armed"
    /\ pc = "count" \/ (pc = "loop" /\ LoopCondition(offset, total_rows))
    /\ fault' = [state |-> "read", run |-> run, table |-> table_now,
                 progress |-> progress[table_now], target |-> target]
    /\ pc' = OnReadError(ti).pc
    /\ ti' = OnReadError(ti).ti
    /\ yielded' = << >>
    /\ UNCHANGED <<src, target, batch_size, run, total_rows, offset, batch,
                   progress, run_start, first_target, saved, inserted, failures,
                   skipped, chk, report, commits, clock, cmp>>

\* the process is stopped while no batch is in flight: the connections are
\* closed, what was committed stays in the target
Abort ==
    /\ fault.state = "armed"
    /\ pc \in {"count", "loop"}
    /\ fault' = [state |-> "abort", run |-> run, table |-> table_now,
                 progress |-> progress[table_now], target |-> target]
    /\ pc' = "aborted"
    /\ UNCHANGED <<src, target, batch_size, run, ti, total_rows, offset, batch,
                   yielded, progress, run_start, first_target, saved, inserted,
                   failures, skipped, chk, report, commits, clock, cmp>>

(***************************************************************************)
(* check_consistency.py                                                    *)
(***************************************************************************)
\* the tables test_data_integrity visits, in its order
CheckerTables == <<"person", "genre", "film_work", "genre_film_work", "person_film_work">>

\* convert_sqlite_datetime: a str holding '+00' is stripped of it and parsed
convert_sqlite_datetime(value) ==
    IF value.t = "str+00" THEN Naive(value.v) ELSE value

\* as convert_postgres_datetime, with tzinfo removed and astimezone left out
ConvertDropTzinfo(value) ==
    IF value.t = "aware" THEN Naive(value.v) ELSE value
\* convert_postgres_datetime: an aware datetime is moved to UTC and made naive
convert_postgres_datetime(value) ==
    IF value.t = "aware" THEN Naive(value.v - value.off) ELSE value

\* Python's ==: aware datetimes are equal when they denote the same instant,
\* an int and a float when they hold the same number; values of other
\* different types (str / datetime / None, naive / aware) are unequal
PyEq(a, b) ==
    IF a.t = "aware" /\ b.t = "aware" THEN a.v - a.off = b.v - b.off
    ELSE IF a.t \in {"int", "float"} /\ b.t \in {"int", "float"} THEN a.v = b.v
    ELSE a = b

\* SELECT * FROM table ORDER BY id
RECURSIVE OrderById(_)
OrderById(rows) ==
    IF rows = {} THEN << >>
    ELSE LET first == CHOOSE r \in rows : \A q \in rows : r.id.v <= q.id.v
         IN <<first>> \o OrderById(rows \ {first})

Range(seq) == {seq[i] : i \in 1..Len(seq)}

\* the comparison of one column of one pair of rows: TRUE when the assert fails
Mismatch(sqlite_row, pg_row, column) ==
    LET stamp == column \in {"created", "modified"}
        sqlite_value == IF stamp THEN convert_sqlite_datetime(sqlite_row[column])
                        ELSE sqlite_row[column]
        pg_value == IF stamp THEN convert_postgres_datetime(pg_row[column])
                    ELSE pg_row[column]
    IN /\ ~ (sqlite_value = Null /\ PyEq(pg_value, Float(0)))
       /\ ~ PyEq(sqlite_value, pg_value)

\* the positions <<row id, column>> whose assert would fail, in the order of
\* the two nested for loops
RECURSIVE ScanColumns(_, _, _)
ScanColumns(sqlite_row, pg_row, columns) ==
    IF columns = << >> THEN << >>
    ELSE (IF Mismatch(sqlite_row, pg_row, Head(columns))
          THEN <<[id |-> sqlite_row.id.v, column |-> Head(columns)]>> ELSE << >>)
         \o ScanColumns(sqlite_row, pg_row, Tail(columns))

RECURSIVE ScanRows(_, _, _)
ScanRows(table, sqlite_rows, pg_rows) ==
    IF sqlite_rows = << >> \/ pg_rows = << >> THEN << >>
    ELSE ScanColumns(Head(sqlite_rows), Head(pg_rows), Columns(table))
         \o ScanRows(table, Tail(sqlite_rows), Tail(pg_rows))

\* compare_table_count: TRUE when it returns, FALSE when its assert raises
compare_table_count(table, sqlite, pg) ==
    CountRows(sqlite[table]) = Cardinality(pg[table])

\* compare_table_data: raised = an assert failed; mismatches = what the
\* AssertionError names (the first failing position: the assert ends the loops)
compare_table_data(table, sqlite, pg) ==
    LET sqlite_rows == OrderById(Range(sqlite[table]))
        pg_rows == OrderById(pg[table])
        found == ScanRows(table, sqlite_rows, pg_rows)
    IN IF Len(sqlite_rows) # Len(pg_rows) THEN [raised |-> TRUE, mismatches |-> << >>]
       ELSE IF found # << >> THEN [raised |-> TRUE, mismatches |-> <<Head(found)>>]
       ELSE [raised |-> FALSE, mismatches |-> << >>]

\* one iteration of the for loop of test_data_integrity: both checks inside
\* one try; an AssertionError is logged and the loop continues
CheckEntry(table, sqlite, pg) ==
    IF ~ compare_table_count(table, sqlite, pg) THEN
        [table |-> table, count_ok |-> FALSE, data_ran |-> FALSE,
         mismatches |-> << >>, passed |-> FALSE]
    ELSE LET data == compare_table_data(table, sqlite, pg) IN
        [table |-> table, count_ok |-> TRUE, data_ran |-> TRUE,
         mismatches |-> data.mismatches, passed |-> ~ data.raised]

\* as OnAssertionError, with the AssertionError leaving test_data_integrity
OnAssertionErrorRaise(i) == -1
\* except AssertionError as e: logger.error(str(e)); continue: the for loop
\* takes the next table
OnAssertionError(i) == i + 1

\* the checker is started once a migration run has ended
StartCheck ==
    /\ pc = "done"
    /\ chk = 0
    /\ chk' = 1
    /\ report' = << >>
    /\ UNCHANGED <<src, target, batch_size, run, pc, ti, total_rows, offset, batch,
                   yielded, progress, run_start, first_target, saved, inserted,
                   failures, skipped,
                   commits,
                   fault,
                   clock, cmp>>

CheckTable ==
    /\ chk \in 1..Len(CheckerTables)
    /\ report' = Append(report, CheckEntry(CheckerTables[chk], src, target))
    /\ chk' = IF report'[chk].passed THEN chk + 1 ELSE OnAssertionError(chk)
    /\ UNCHANGED <<src, target, batch_size, run, pc, ti, total_rows, offset, batch,
                   yielded, progress, run_start, first_target, saved, inserted,
                   failures, skipped,
                   commits,
                   fault,
                   clock, cmp>>

Next ==
    \/ CountTable
    \/ YieldBatch
    \/ Save
    \/ NextTable
    \/ RunAgain
    \/ StartCheck
    \/ CheckTable

Spec == Init /\ [][Next]_vars

\* columns compare_table_data meets: a text, a number and the timestamps
CompareColumns == {"description", "rating", "created", "modified"}

\* values a column of a source row holds
SqliteValues ==
    {Null, PyInt(0), Float(0), Float(5), Text(0), Text(1)}
    \cup {TextTs(n) : n \in 0..MaxInstant}

\* values a column of a target row holds
PgValues ==
    {Null, PyInt(0), Float(0), Float(5), Text(0), Text(1)}
    \cup {Aware(n + o, o) : n \in -1..MaxInstant, o \in -MaxOffset..MaxOffset}

\* the body of the inner for loop of compare_table_data: one column of one
\* pair of rows is compared
Compare ==
    /\ \E column \in CompareColumns, sqlite_value \in SqliteValues, pg_value \in PgValues :
           cmp' = [column |-> column, sqlite_value |-> sqlite_value,
                   pg_value |-> pg_value,
                   mismatch |-> Mismatch([c \in {column} |-> sqlite_value],
                                         [c \in {column} |-> pg_value], column)]
    /\ UNCHANGED <<src, target, batch_size, run, pc, ti, total_rows, offset, batch,
                   yielded, progress, run_start, first_target, saved, inserted,
                   failures, skipped, chk, report, commits, fault, clock>>

InitCompare ==
    /\ Init
    /\ src = [person |-> <<P1>>, genre |-> << >>, film_work |-> <<F1>>,
              person_film_work |-> << >>, genre_film_work |-> << >>]
    /\ target = EmptyTarget
    /\ batch_size = 1

\* the comparison of compare_table_data applied to all pairs of values
SpecCompare == InitCompare /\ [][Compare]_vars

\* the runs whose stores the checker is followed on to its end
InitChecker ==
    /\ Init
    /\ src.person = <<P2, P1, P3>>
    /\ src.genre = <<G1, G3>>
    /\ src.genre_film_work = <<Y1, Y2>>
    /\ batch_size = MaxBatchSize

\* the for loop of test_data_integrity, once started, keeps running
SpecChecker == InitChecker /\ [][Next]_vars /\ WF_vars(CheckTable)

\* the stores of the runs that meet a failure of the environment
FaultSources ==
    {source \in Sources : /\ source.person = <<P2, P1, P3>>
                          /\ source.genre = <<G1, G3>>
                          /\ source.film_work = <<F2, F1>>
                          /\ source.genre_film_work = <<Y1, Y2>>}

InitFaults ==
    /\ src \in FaultSources
    /\ target \in Targets
    /\ batch_size \in 1..MaxBatchSize
    /\ run = 1
    /\ pc = "count"
    /\ ti = 1
    /\ total_rows = 0
    /\ offset = 0
    /\ batch = << >>
    /\ yielded = << >>
    /\ progress = [table \in Tables |-> 0]
    /\ run_start = target
    /\ first_target = target
    /\ saved = NoSave
    /\ inserted = 0
    /\ failures = 0
    /\ skipped = 0
    /\ chk = 0
    /\ report = << >>
    /\ commits = 0
    /\ fault = Armed
    /\ clock = [table \in Tables |-> << >>]
    /\ cmp = NoCompare

NextFaults ==
    \/ CountTable
    \/ YieldBatch
    \/ Save
    \/ NextTable
    \/ RunAgain
    \/ ReadError
    \/ Abort

\* migration runs in which one query of the source raises or one run is aborted
SpecFaults == InitFaults /\ [][NextFaults]_vars


(***************************************************************************)
(* Properties.                                                             *)
(***************************************************************************)
SourceRows == Len(src.person) + Len(src.genre) + Len(src.film_work)
              + Len(src.person_film_work) + Len(src.genre_film_work)

RunDone == pc = "done" /\ chk = 0

\* C1 (as stated): a second run leaves the target as the first run left it,
\* inserts nothing, and skips every source row on the duplicate-key conflict.
C1_SecondRunSkipsEveryRow ==
    (RunDone /\ run >= 2) =>
        /\ target = run_start
        /\ inserted = 0
        /\ skipped = SourceRows

\* C1 (amended): a second run leaves the target as the first run left it and
\* inserts nothing; every row of a batch whose transaction was not aborted by
\* a row error is skipped on the duplicate-key conflict.
C1_SecondRunChangesNothing ==
    /\ (RunDone /\ run >= 2) => (target = run_start /\ inserted = 0)
    /\ (run >= 2 /\ saved.table # "" /\ ~ saved.failed) =>
           \A i \in 1..Len(saved.out) : saved.out[i] = "skipped"

\* a second run ended over a target the first run had filled; it skipped rows
\* and met rows that fail again
C1_Witness ==
    /\ RunDone /\ run >= 2
    /\ target # first_target
    /\ skipped > 0
    /\ failures > 0

\* the row, as the target would store it
Stored(table, row) == PgRow(table, Params(table, row, Now(run)))

\* row i of the last saved batch is valid and no duplicate: its parents exist,
\* and it collides on no unique index with the target as it was before the
\* batch nor with another row of the batch
ValidNew(i) ==
    LET table == saved.table
        r == Stored(table, saved.data[i])
        others == {Stored(table, saved.data[j]) : j \in 1..Len(saved.data) \ {i}}
    IN /\ ~ FkViolation(table, r, saved.before)
       /\ \A key \in UniqueIndexes(table) :
              ~ Collides(key, r, saved.before[table] \cup others)

\* C2: when a row of a batch fails, every other row of the batch that is valid
\* and not a duplicate is in the target after the batch's commit.
C2_FailingRowIsIsolated ==
    (saved.table # "" /\ \E k \in 1..Len(saved.out) : saved.out[k] = "error") =>
        \A i \in 1..Len(saved.data) :
            ValidNew(i) => Stored(saved.table, saved.data[i]) \in target[saved.table]

\* the order the tables are to be processed in
Order(table) ==
    CASE table = "person" -> 1
      [] table = "genre" -> 2
      [] table = "film_work" -> 3
      [] table = "person_film_work" -> 4
      [] table = "genre_film_work" -> 5

\* C3: whenever a batch of a table is about to be written, every batch of
\* every table earlier in the order person, genre, film_work,
\* person_film_work, genre_film_work has been committed, and no later table
\* has been touched; so a link row is written only after the film_work batches.
C3_PlanOrder ==
    (pc = "save") =>
        \A other \in Tables :
            /\ Order(other) < Order(table_now) => progress[other] = Len(src[other])
            /\ Order(other) > Order(table_now) => progress[other] = 0

\* a batch of link rows is about to be written and one of its rows references
\* a film_work row of the source, whose table took more than one batch
C3_Witness ==
    /\ pc = "save"
    /\ table_now = "person_film_work"
    /\ Len(src.film_work) > batch_size
    /\ \E i \in 1..Len(batch) : \E j \in 1..Len(src.film_work) :
           batch[i].film_work_id = src.film_work[j].id

RECURSIVE Concat(_)
Concat(seqs) == IF seqs = << >> THEN << >> ELSE Head(seqs) \o Concat(Tail(seqs))

Min(a, b) == IF a < b THEN a ELSE b

\* C4: batch k of a table holds the rows [k*b, (k+1)*b) of the table, so at
\* most b rows, and once load_data ends the batches concatenate to the table.
C4_BatchCompleteness ==
    /\ \A k \in 1..Len(yielded) :
           /\ Len(yielded[k]) <= batch_size
           /\ yielded[k] = SubSeq(src[table_now], (k - 1) * batch_size + 1,
                                  Min(k * batch_size, Len(src[table_now])))
    /\ (pc = "loop" /\ offset >= total_rows) => Concat(yielded) = src[table_now]

\* load_data ended on a table that took two batches, the last one short
C4_Witness ==
    /\ pc = "loop" /\ offset >= total_rows
    /\ Len(yielded) = 2
    /\ Len(yielded[2]) < batch_size
    /\ Len(src[table_now]) = 3


\* row i of the last saved batch was executed in a transaction no earlier row
\* had aborted
Unpoisoned(i) == \A k \in 1..(i - 1) : saved.out[k] # "error"

\* C5: a row that collides with a target row on its table's declared key (id
\* for person, genre and film_work; the composite unique constraint for the
\* link tables, whatever its id) is skipped silently, not reported as an error.
C5_ConflictOnDeclaredKeyIsSkipped ==
    (saved.table # "") =>
        \A i \in 1..Len(saved.data) :
            (/\ Unpoisoned(i)
             /\ Collides(DeclaredKey(saved.table),
                         Stored(saved.table, saved.data[i]),
                         saved.before[saved.table]))
            => saved.out[i] = "skipped"

\* C6: after a first run into an empty target that logged no row-level error,
\* every table of the target has as many rows as the source's.
C6_CountPreservation ==
    (RunDone /\ run = 1 /\ first_target = EmptyTarget /\ failures = 0) =>
        \A table \in Tables : Cardinality(target[table]) = Len(src[table])

\* a clean first run into an empty target ended, with rows in all five tables
C6_Witness ==
    /\ RunDone /\ run = 1 /\ first_target = EmptyTarget /\ failures = 0
    /\ \A table \in Tables : Len(src[table]) >= 2
    /\ inserted = SourceRows

CheckDone == chk = Len(CheckerTables) + 1

\* C7: after a clean first run into an empty target, the checker reports pass
\* (count check and content check) for each of the five tables.
C7_CleanRunPassesTheChecker ==
    (CheckDone /\ run = 1 /\ first_target = EmptyTarget /\ failures = 0) =>
        \A k \in 1..Len(report) : report[k].passed

\* C8: every row the target held before a run is in the target, with the same
\* column values, at every point of the run and after it.
C8_InsertOnly ==
    \A table \in Tables :
        /\ first_target[table] \subseteq target[table]
        /\ run_start[table] \subseteq target[table]

\* a run that inserted rows ended over a target that already held a person
\* whose source row has the same id and another name
C8_Witness ==
    /\ RunDone
    /\ inserted > 0
    /\ TP1 \in first_target.person
    /\ \E i \in 1..Len(src.person) :
           /\ src.person[i].id = TP1.id
           /\ src.person[i].full_name # TP1.full_name

\* C9: when the count check of a table fails, the content check of that table
\* is still executed.
C9_ContentCheckRunsAfterCountFailure ==
    \A k \in 1..Len(report) : ~ report[k].count_ok => report[k].data_ran

\* every position <<row id, column>> in which the paired rows of a table differ
AllMismatches(table) ==
    Range(ScanRows(table, OrderById(Range(src[table])), OrderById(target[table])))

\* C10: when the rows of a table differ in two or more positions, the content
\* check records every one of them.
C10_AllMismatchesRecorded ==
    \A k \in 1..Len(report) :
        (report[k].data_ran /\ Cardinality(AllMismatches(report[k].table)) >= 2) =>
            Range(report[k].mismatches) = AllMismatches(report[k].table)


\* number of batches of a table of n rows read b rows at a time
Batches(n, b) == (n + b - 1) \div b

ExpectedCommits ==
    Batches(Len(src.person), batch_size) + Batches(Len(src.genre), batch_size)
    + Batches(Len(src.film_work), batch_size)
    + Batches(Len(src.person_film_work), batch_size)
    + Batches(Len(src.genre_film_work), batch_size)

\* C11: whatever rows fail on insert, no exception leaves load_from_sqlite,
\* and a run that returned has gone through all the rows of all five tables
\* with one commit per batch.
C11_RowFailuresNeverEndTheRun ==
    /\ pc # "crashed"
    /\ pc = "done" =>
           /\ \A table \in Tables : progress[table] = Len(src[table])
           /\ commits = ExpectedCommits

\* a run returned after rows had failed in several batches
C11_Witness ==
    /\ RunDone
    /\ failures >= 3
    /\ commits = ExpectedCommits
    /\ commits >= 6

\* C12: when the count or a read of one table raises, the extraction of that
\* table stops there, what its earlier batches committed stays in the target,
\* and load_from_sqlite goes on with the tables after it in the plan and
\* migrates each of them in full.
C12_ReadErrorIsIsolated ==
    (fault.state = "read" /\ run = fault.run) =>
        /\ pc \notin {"crashed", "aborted"}
        /\ progress[fault.table] = fault.progress
        /\ \A table \in Tables : fault.target[table] \subseteq target[table]
        /\ pc = "done" \/ Order(fault.table) < ti
        /\ pc = "done" =>
               \A table \in Tables \ {fault.table} : progress[table] = Len(src[table])

C12_Witness ==
    /\ fault.state = "read"
    /\ run = fault.run
    /\ fault.table = "film_work"
    /\ fault.progress = 1
    /\ pc = "done"
    /\ progress["person_film_work"] = 3
    /\ Cardinality(target["film_work"]) < Len(src["film_work"])

\* the batches k, k + 1, ... of one table saved in turn, batch j under the
\* clock reading of run stamps[j]
RECURSIVE SaveFrom(_, _, _, _, _, _)
SaveFrom(table, rows, k, db, limit, stamps) ==
    IF (k - 1) * limit >= CountRows(rows) THEN db
    ELSE SaveFrom(table, rows, k + 1,
                  SaveBatch(table, SelectLimitOffset(rows, limit, (k - 1) * limit), db,
                            Now(stamps[k])).db,
                  limit, stamps)

\* the target a single run of load_from_sqlite that nothing interrupts leaves,
\* started on db; stamps[table][k] is the run whose clock batch k of the
\* table reads for datetime.now()
RECURSIVE MigrateFrom(_, _, _, _, _)
MigrateFrom(i, source, db, limit, stamps) ==
    IF i > Len(Plan) THEN db
    ELSE MigrateFrom(i + 1, source,
                     SaveFrom(Plan[i], source[Plan[i]], 1, db, limit, stamps[Plan[i]]),
                     limit, stamps)

UninterruptedRun == MigrateFrom(1, src, first_target, batch_size, clock)

\* C13: after a run was stopped between two batches, a following complete run
\* leaves the target with exactly the rows a single uninterrupted run on the
\* same source leaves (each batch stamped by the clock it was first saved
\* under); the rows present when the run was stopped are all still there,
\* unchanged, and every row added since has an id that was missing then.
C13_RerunAfterAbortRecovers ==
    (fault.state = "abort" /\ run > fault.run /\ pc = "done") =>
        /\ target = UninterruptedRun
        /\ \A table \in Tables :
               /\ fault.target[table] \subseteq target[table]
               /\ \A r \in target[table] \ fault.target[table] :
                      \A q \in fault.target[table] : q.id # r.id

C13_Witness ==
    /\ fault.state = "abort"
    /\ fault.table = "film_work"
    /\ fault.progress = 1
    /\ run = fault.run + 1
    /\ pc = "done"
    /\ clock["film_work"] = <<1, 2>>
    /\ target # fault.target
    /\ Cardinality(target["person_film_work"]) > Cardinality(first_target["person_film_work"])

\* C14: a film_work row that a save_film_works call inserted holds rating 0.0
\* in the target when the source rating is NULL and the source rating itself
\* otherwise; the comparison of a source NULL with a target 0.0 in the column
\* rating is no mismatch, and the checker reports no mismatch in rating for
\* film_work rows that the migration wrote.
C14_RatingDefault ==
    /\ (saved.table = "film_work" /\ ~ saved.failed) =>
           \A i \in 1..Len(saved.data) :
               saved.out[i] = "inserted" =>
                   \E r \in target["film_work"] :
                       /\ r.id = saved.data[i].id
                       /\ r.rating = IF saved.data[i].rating = Null THEN Float(0)
                                     ELSE saved.data[i].rating
    /\ \A i \in 1..Len(src["film_work"]) : \A r \in target["film_work"] :
           (src["film_work"][i].rating = Null /\ r.rating = Float(0)) =>
               ~ Mismatch(src["film_work"][i], r, "rating")
    /\ (first_target["film_work"] = {} /\ Len(report) >= 3) =>
           \A k \in 1..Len(report[3].mismatches) :
               report[3].mismatches[k].column # "rating"

C14_Witness ==
    /\ first_target["film_work"] = {}
    /\ Len(src["film_work"]) = 2
    /\ Len(report) >= 3
    /\ report[3].table = "film_work"
    /\ report[3].passed
    /\ \E r \in target["film_work"] : r.id = Text(1) /\ r.rating = Float(0)
    /\ \E r \in target["film_work"] : r.id = Text(2) /\ r.rating = Float(5)

\* C15: started from a referentially consistent target, migration runs keep
\* it so: every person_film_work row references a film_work id and a person
\* id present in the target, and every genre_film_work row a film_work id and
\* a genre id present in the target.
C15_ReferentialIntegrity ==
    /\ \A r \in target["person_film_work"] :
           /\ \E f \in target["film_work"] : f.id = r.film_work_id
           /\ \E p \in target["person"] : p.id = r.person_id
    /\ \A r \in target["genre_film_work"] :
           /\ \E f \in target["film_work"] : f.id = r.film_work_id
           /\ \E g \in target["genre"] : g.id = r.genre_id

\* a link row to an absent film_work was offered and kept out, while other
\* link rows went in
C15_Witness ==
    /\ RunDone
    /\ batch_size = 1
    /\ src["person_film_work"] = <<X1, X2, X3>>
    /\ \E r \in target["person_film_work"] : r.id = Text(1)
    /\ \E r \in target["person_film_work"] : r.id = Text(3)
    /\ \A r \in target["person_film_work"] : r.id # Text(2)
    /\ \E r \in target["genre_film_work"] : r.id = Text(2)

\* C16: whatever count or content mismatches the tables hold, no exception
\* leaves test_data_integrity: it visits the tables of its list one by one in
\* the order of the list, and once started it reaches its end with all five
\* visited.
C16_MismatchNeverFatal ==
    /\ [](/\ chk # -1
          /\ \A k \in 1..Len(report) : report[k].table = CheckerTables[k]
          /\ chk >= 1 => Len(report) = chk - 1)
    /\ (chk = 1) ~> (chk = Len(CheckerTables) + 1 /\ Len(report) = Len(CheckerTables))

C16_Witness ==
    /\ chk = Len(CheckerTables) + 1
    /\ Len(report) = Len(CheckerTables)
    /\ \E j, k \in 1..Len(report) :
           /\ ~ report[j].count_ok
           /\ report[k].data_ran /\ ~ report[k].passed
    /\ report[Len(report)].passed

\* C17: for a table of n rows and a batch size b, load_data yields
\* ceil(n / b) batches and then ends, none for an empty table: while it runs
\* it has yielded at most that many, each of them non-empty and within the
\* counted rows; it is at the end of its loop exactly when it has yielded
\* that many; and a finished run has taken that many batches of every table.
C17_ExtractionTerminates ==
    /\ pc \in {"loop", "save"} =>
           /\ Len(yielded) <= Batches(total_rows, batch_size)
           /\ \A k \in 1..Len(yielded) :
                  /\ yielded[k] # << >>
                  /\ (k - 1) * batch_size + Len(yielded[k]) <= total_rows
    /\ pc = "loop" =>
           (offset >= total_rows <=> Len(yielded) = Batches(total_rows, batch_size))
    /\ pc = "done" =>
           \A table \in Tables :
               Len(clock[table]) = Batches(Len(src[table]), batch_size)

C17_Witness ==
    /\ pc = "done"
    /\ run = 1
    /\ batch_size = 2
    /\ Len(src["person"]) = 3
    /\ Len(clock["person"]) = 2
    /\ src["genre"] = << >>
    /\ clock["genre"] = << >>

\* commit() calls a run makes for the tables before the i-th of the plan
RECURSIVE CommitsBefore(_)
CommitsBefore(i) ==
    IF i <= 1 THEN 0
    ELSE CommitsBefore(i - 1) + Batches(Len(src[Plan[i - 1]]), batch_size)

\* rows of the current table read from the source and not yet committed
Uncommitted == Len(Concat(yielded)) - progress[table_now]

\* C18: at every point of a run at most one batch, of at most batch_size
\* rows, has been read and not yet committed: between a read and the commit
\* that follows it, it is the batch last yielded and every batch before it
\* has been committed; after the commit nothing read is uncommitted, so
\* batch k + 1 is read only once batch k has been committed.
C18_OneBatchInFlight ==
    /\ pc = "save" =>
           /\ batch = yielded[Len(yielded)]
           /\ Uncommitted = Len(batch)
           /\ Len(batch) <= batch_size
           /\ commits = CommitsBefore(ti) + Len(yielded) - 1
    /\ pc = "loop" =>
           /\ batch = << >>
           /\ Uncommitted = 0
           /\ commits = CommitsBefore(ti) + Len(yielded)
    /\ pc \in {"count", "done"} => batch = << >>

C18_Witness ==
    /\ pc = "save"
    /\ table_now = "person_film_work"
    /\ batch_size = 2
    /\ Len(yielded) = 2
    /\ Len(batch) = 1
    /\ progress["person_film_work"] = 2
    /\ commits = CommitsBefore(ti) + 1
    /\ commits >= 4

====
